---- MODULE Spec2Model ----
(***************************************************************************)
(* A model of the PhoenixChart session of domo-phoenix                      *)
(* (src/chart/chart.ts): the row normalizer, the palette synthesizer, the   *)
(* configuration builder with its JSON serialization, and the stateful      *)
(* session that hands the serialized document to the rendering engine.      *)
(*                                                                          *)
(* JavaScript values are modelled as tagged records: Undefined, Null or     *)
(* Some(v).  A JavaScript object is a sequence of <<key, value>> pairs in   *)
(* key-insertion order; an array is the same with keys "0", "1", ... and    *)
(* isArray = TRUE.  A colour string is a sequence of characters.  A thrown  *)
(* exception is a result with threw = TRUE carrying the state reached at    *)
(* the throwing statement.                                                  *)
(***************************************************************************)
EXTENDS Integers, Sequences, FiniteSets, TLC

VARIABLES _type, _data, _options, _instance, _packet, canvas,
          engine, lastCall, repeated, ctorColored, palIn, palOut

vars == <<_type, _data, _options, _instance, _packet, canvas,
          engine, lastCall, repeated, ctorColored, palIn, palOut>>

sessionVars == <<_type, _data, _options, _instance, _packet, canvas,
                 engine, lastCall, repeated, ctorColored>>

----------------------------------------------------------------------------
(* JavaScript values *)

Undefined == [tag |-> "undefined", val |-> <<>>]

Null == [tag |-> "null", val |-> <<>>]

Some(v) == [tag |-> "val", val |-> v]

\* `if (x)` for x undefined, null, an array or an object
Truthy(x) == x.tag = "val"

\* the value a cell holds when JavaScript reads it as undefined
UndefinedCell == "undefined"

ArrayOf(vals) ==
  [isArray |-> TRUE,
   items |-> [i \in 1..Len(vals) |-> <<ToString(i - 1), vals[i]>>]]

ObjectOf(pairs) == [isArray |-> FALSE, items |-> pairs]

Values(row) == [i \in 1..Len(row.items) |-> row.items[i][2]]

Remove(f, k) == [x \in DOMAIN f \ {k} |-> f[x]]

----------------------------------------------------------------------------
(* Bounds and input sets *)

MaxRows == 1

MaxColors == 4

ChartTypes == {"BAR", "MAP_WORLD"}

MapTypes == {"MAP_WORLD"}

Columns ==
  << [name |-> "a", type |-> "STRING", mapping |-> "ITEM"],
     [name |-> "b", type |-> "LONG", mapping |-> "VALUE"] >>

RowSamples ==
  { ArrayOf(<<"1", UndefinedCell>>),
    ObjectOf(<< <<"c", "3">>, <<"b", "2">> >>) }

RowLists == UNION { [1..n -> RowSamples] : n \in 0..MaxRows }

DataInputs ==
  { [columns |-> Columns, rows |-> r] :
      r \in { Some(l) : l \in RowLists } \cup {Undefined} }

Red == <<"#", "f", "0", "0">>

Green == <<"#", "0", "f", "0">>

Bare == <<"0", "0", "f">>

Options(height, width, animate, colors, properties) ==
  Some([height |-> height, width |-> width, animate |-> animate,
        colors |-> colors, properties |-> properties])

HideLegend == << <<"hide_legend", "true">> >>

PropertySamples == { HideLegend }

\* the options objects a caller passes: none, {}, one field at a time, all
OptionsInputs ==
  { Undefined,
    Options(Undefined, Undefined, Undefined, Undefined, Undefined),
    Options(Undefined, Undefined, Undefined, Null, Undefined),
    Options(Undefined, Undefined, Undefined, Some(<<>>), Undefined),
    Options(Undefined, Undefined, Undefined, Undefined, Some(HideLegend)),
    Options(Some(480), Some(640), Some(FALSE), Undefined, Undefined),
    Options(Some(480), Some(640), Some(FALSE), Some(<<Red, Green>>),
            Some(HideLegend)) }

Sizes == { <<640, 480>> }

PaletteColors == {Red, Green, Bare}

ColorLists == UNION { [1..n -> PaletteColors] : n \in 0..MaxColors }

----------------------------------------------------------------------------
(* map-utils and the rendering engine *)

_isMap(type) == type \in MapTypes

_getMapDefinition(type) == Some(<<"mapdef", type>>)

NoEngine ==
  [config |-> Undefined, state |-> "", width |-> Undefined,
   height |-> Undefined, hover |-> FALSE]

createPhoenixWithChartState(configString, stateString, width, height) ==
  [config |-> Some(configString), state |-> stateString, width |-> width,
   height |-> height, hover |-> FALSE]

updateChartJson(eng, configString, skipAnimation) ==
  [eng EXCEPT !.config = Some(configString)]

\* drawing changes the canvas pixels only, which are not modelled
draw(eng, skipAnimation) == eng

setUsePhoenixHover(eng, hover) == [eng EXCEPT !.hover = hover]

\* the one canvas of the one engine instance
getCanvas(eng) == 1

engineResize(eng, width, height) ==
  [eng EXCEPT !.width = Some(width), !.height = Some(height)]

----------------------------------------------------------------------------
(* Configuration builder *)

DEFAULT_OPTIONS ==
  [height |-> Some(400), width |-> Some(500), animate |-> Some(TRUE),
   colors |-> Null, properties |-> Undefined]

\* { ...DEFAULT_OPTIONS, ...options }
MergeDefaults(options) ==
  IF options.tag # "val" THEN DEFAULT_OPTIONS
  ELSE [k \in DOMAIN DEFAULT_OPTIONS |->
          IF options.val[k].tag # "undefined" THEN options.val[k]
          ELSE DEFAULT_OPTIONS[k]]

transformData(rows) ==
  [r \in 1..Len(rows) |-> ArrayOf(Values(rows[r]))]

\* Array.isArray(data.rows[0]); rows[0] of an empty array is undefined
FirstIsArray(rows) == Len(rows) > 0 /\ rows[1].isArray

normalizeRows(data) ==
  IF data.rows.tag = "val" /\ ~FirstIsArray(data.rows.val)
  THEN [data EXCEPT !.rows = Some(transformData(data.rows.val))]
  ELSE data

_createPalette_oneBased(colors) ==
  [colorRanges |->
     << [name |-> "CustomPalette",
         values |-> [i \in 1..Len(colors) |->
                       SubSeq(colors[i], 2, Len(colors[i]))]] >>,
   colorRules |->
     << [min |-> 1,
         max |-> Len(colors),
         values |-> [i \in 1..Len(colors) |-> <<0, i>>]] >>]

_createPalette(colors) ==
  [colorRanges |->
     << [name |-> "CustomPalette",
         values |-> [i \in 1..Len(colors) |->
                       SubSeq(colors[i], 2, Len(colors[i]))]] >>,
   colorRules |->
     << [min |-> 1,
         max |-> Len(colors),
         values |-> [i \in 1..Len(colors) |-> <<0, i - 1>>]] >>]

Component(kind, type, options) ==
  [type |-> kind, badgetype |-> type, datasource |-> "default",
   columnFormats |-> <<>>,
   overrides |-> IF Truthy(options.properties) THEN options.properties.val
                 ELSE <<>>]

\* the graph member is deleted for a map type; the maps and map members
\* are deleted for any other type
pruneConfig_keepGraph(type, config) ==
  IF _isMap(type) THEN config
  ELSE [Remove(config, "maps") EXCEPT !.components = Remove(@, "map")]

pruneConfig(type, config) ==
  IF _isMap(type)
  THEN [config EXCEPT !.components = Remove(@, "graph")]
  ELSE [Remove(config, "maps") EXCEPT !.components = Remove(@, "map")]

\* a result of _toPhoenixConfig / _createConfigString: a value or a throw
Return(v) == [threw |-> FALSE, value |-> v]

Throw == [threw |-> TRUE, value |-> <<>>]

_toPhoenixConfig(type, data, options) ==
  IF data.rows.tag # "val" \/ options.tag # "val" THEN Throw
  ELSE
    LET opts == options.val
        config ==
          [datasources |->
             [default |->
                [type |-> "ordered-column-list",
                 data |->
                   [datasource |-> "default",
                    metadata |-> [i \in 1..Len(data.columns) |->
                                    [type |-> data.columns[i].type]],
                    mappings |-> [i \in 1..Len(data.columns) |->
                                    data.columns[i].mapping],
                    columns |-> [i \in 1..Len(data.columns) |->
                                   data.columns[i].name],
                    rows |-> data.rows.val,
                    numRows |-> Len(data.rows.val),
                    numColumns |-> Len(data.columns)]]],
           components |->
             [graph |-> IF ~_isMap(type)
                        THEN Some(Component("graph", type, opts))
                        ELSE Null,
              map |-> IF _isMap(type)
                      THEN Some(Component("map", type, opts)
                                  @@ ("mapdef" :> "map"))
                      ELSE Null],
           maps |-> IF _isMap(type) THEN _getMapDefinition(type) ELSE Null,
           conditionalFormats |-> <<>>,
           locale |-> "en-US",
           version |-> "6"]
        pruned == pruneConfig(type, config)
    IN Return(IF Truthy(opts.colors)
              THEN pruned @@ ("palette" :> _createPalette(opts.colors.val))
              ELSE pruned)

\* JSON.stringify of one row: an undefined array element is written as
\* null, an undefined object member is left out
StringifyRow(row) ==
  IF row.isArray
  THEN [row EXCEPT !.items =
          [i \in 1..Len(row.items) |->
             IF row.items[i][2] = UndefinedCell
             THEN <<row.items[i][1], "null">> ELSE row.items[i]]]
  ELSE [row EXCEPT !.items =
          SelectSeq(row.items, LAMBDA p : p[2] # UndefinedCell)]

\* JSON.stringify of the configuration: members whose value is undefined
\* are left out, null members are kept
JSON_stringify(config) ==
  LET kept == { k \in DOMAIN config :
                  ~(k = "maps" /\ config[k].tag = "undefined") }
      rows == config.datasources.default.data.rows
  IN [k \in kept |->
        IF k = "datasources"
        THEN [config.datasources EXCEPT !.default.data.rows =
                [r \in 1..Len(rows) |-> StringifyRow(rows[r])]]
        ELSE config[k]]

_createConfigString(type, data, options) ==
  LET chartConfig == _toPhoenixConfig(type, data, options)
  IN IF chartConfig.threw THEN Throw
     ELSE Return(JSON_stringify(chartConfig.value))

----------------------------------------------------------------------------
(* The session *)

This ==
  [_type |-> _type, _data |-> _data, _options |-> _options,
   _instance |-> _instance, _packet |-> _packet, canvas |-> canvas]

NoData == [columns |-> <<>>, rows |-> Undefined]

Result(this, eng, threw, submitted) ==
  [this |-> this, engine |-> eng, threw |-> threw, submitted |-> submitted]

_createInstance(this) ==
  LET cs == _createConfigString(this._type, this._data, Some(this._options))
  IN IF cs.threw THEN Result(this, NoEngine, TRUE, <<>>)
     ELSE Result([this EXCEPT !._packet = Some(cs.value)],
                 createPhoenixWithChartState(cs.value, "{}",
                                             this._options.width,
                                             this._options.height),
                 FALSE, <<cs.value>>)

constructor(this, type, data, options) ==
  LET this1 == [this EXCEPT !._type = type,
                            !._data = normalizeRows(data),
                            !._options = MergeDefaults(options)]
      r == _createInstance(this1)
  IN IF r.threw THEN r
     ELSE Result([r.this EXCEPT !._instance = 1, !.canvas = getCanvas(r.engine)],
                 setUsePhoenixHover(r.engine, TRUE),
                 FALSE, r.submitted)

\* the options of the session after update has looked at the options it
\* was given: only colors and properties are taken, and only when truthy
mergeOptions_spread(current, options) ==
  [k \in DOMAIN current |->
     IF options[k].tag # "undefined" THEN options[k] ELSE current[k]]

mergeOptions(current, options) ==
  LET o1 == IF Truthy(options.colors)
            THEN [current EXCEPT !.colors = options.colors]
            ELSE current
  IN IF Truthy(options.properties)
     THEN [o1 EXCEPT !.properties = options.properties]
     ELSE o1

\* update that builds the document from the data the session held before
update_staleData(this, eng, data, options) ==
  IF options.tag # "val" THEN Result(this, eng, TRUE, <<>>)
  ELSE
    LET o == mergeOptions(this._options, options.val)
        d == normalizeRows(data)
        this1 == [this EXCEPT !._options = o, !._data = d]
        cs == _createConfigString(this._type, this._data, Some(o))
    IN IF cs.threw THEN Result(this1, eng, TRUE, <<>>)
       ELSE Result([this1 EXCEPT !._packet = Some(cs.value)],
                   updateChartJson(eng, cs.value, ~o.animate.val),
                   FALSE, <<cs.value>>)

\* update that does not retain the document it submits
update_noPacket(this, eng, data, options) ==
  IF options.tag # "val" THEN Result(this, eng, TRUE, <<>>)
  ELSE
    LET o == mergeOptions(this._options, options.val)
        d == normalizeRows(data)
        this1 == [this EXCEPT !._options = o, !._data = d]
        cs == _createConfigString(this._type, d, Some(o))
    IN IF cs.threw THEN Result(this1, eng, TRUE, <<>>)
       ELSE Result(this1,
                   updateChartJson(eng, cs.value, ~o.animate.val),
                   FALSE, <<cs.value>>)

\* reading options.colors of an undefined options argument throws before
\* anything is assigned; a throw inside the builder comes after the
\* assignments to _options and _data
update(this, eng, data, options) ==
  IF options.tag # "val" THEN Result(this, eng, TRUE, <<>>)
  ELSE
    LET o == mergeOptions(this._options, options.val)
        d == normalizeRows(data)
        this1 == [this EXCEPT !._options = o, !._data = d]
        cs == _createConfigString(this._type, d, Some(o))
    IN IF cs.threw THEN Result(this1, eng, TRUE, <<>>)
       ELSE Result([this1 EXCEPT !._packet = Some(cs.value)],
                   updateChartJson(eng, cs.value, ~o.animate.val),
                   FALSE, <<cs.value>>)

setChartProperties(this, eng, properties) ==
  update([this EXCEPT !._options.properties = properties],
         eng, this._data, Undefined)

resetColorPalette(this, eng) ==
  update([this EXCEPT !._options.colors = Null],
         eng, this._data, Undefined)

render(this, eng) ==
  Result(this, draw(eng, ~this._options.animate.val), FALSE, <<>>)

resize(this, eng, width, height) ==
  Result(this, engineResize(eng, width, height), FALSE, <<>>)

getPacket(this) == this._packet

----------------------------------------------------------------------------
(* Actions *)

Live == _instance = 1

Call(op, data, options) ==
  [op |-> op, data |-> data, options |-> options]

Apply(r, call) ==
  /\ _type' = r.this._type
  /\ _data' = r.this._data
  /\ _options' = r.this._options
  /\ _instance' = r.this._instance
  /\ _packet' = r.this._packet
  /\ canvas' = r.this.canvas
  /\ engine' = r.engine
  /\ lastCall' = call @@ [threw |-> r.threw, submitted |-> r.submitted]
  /\ UNCHANGED <<palIn, palOut>>

\* the call repeats the preceding successful update: same options, and
\* either an equal data value or the very object passed before
Repeats(call, held) ==
  /\ lastCall.op = "update" /\ ~lastCall.threw
  /\ call.options = lastCall.options
  /\ (held \/ call.data = lastCall.data)

Init ==
  /\ _type = "" /\ _data = NoData /\ _options = DEFAULT_OPTIONS
  /\ _instance = 0 /\ _packet = Undefined /\ canvas = 0
  /\ engine = NoEngine
  /\ lastCall = Call("none", NoData, Undefined)
                  @@ [threw |-> FALSE, submitted |-> <<>>]
  /\ repeated = FALSE
  /\ ctorColored = FALSE
  /\ palIn = <<>> /\ palOut = _createPalette(<<>>)

\* new PhoenixChart(type, data, options); a constructor that throws
\* leaves no session behind
Construct ==
  /\ ~Live
  /\ \E type \in ChartTypes, data \in DataInputs, options \in OptionsInputs :
       LET r == constructor(This, type, data, options)
           call == Call("construct", data, options)
       IN /\ IF r.threw THEN Apply(Result(This, engine, TRUE, <<>>), call)
             ELSE Apply(r, call)
          /\ ctorColored' = (~r.threw /\ r.this._options.colors.tag = "val"
                                      /\ r.this._options.colors.val # <<>>)
  /\ repeated' = FALSE

Update ==
  /\ Live
  /\ \E data \in DataInputs, options \in OptionsInputs :
       LET call == Call("update", data, options)
           r == update(This, engine, data, options)
       IN /\ Apply(r, call)
          /\ repeated' = (~r.threw /\ Repeats(call, FALSE))
  /\ UNCHANGED ctorColored

\* update called again with the object the session already holds
UpdateHeld ==
  /\ Live
  /\ \E options \in OptionsInputs :
       LET call == Call("update", _data, options)
           r == update(This, engine, _data, options)
       IN /\ Apply(r, call)
          /\ repeated' = (~r.threw /\ Repeats(call, TRUE))
  /\ UNCHANGED ctorColored

SetChartProperties ==
  /\ Live
  /\ \E p \in PropertySamples :
       Apply(setChartProperties(This, engine, Some(p)),
             Call("setChartProperties", NoData,
                  Some([DEFAULT_OPTIONS EXCEPT !.properties = Some(p)])))
  /\ repeated' = FALSE
  /\ UNCHANGED ctorColored

ResetColorPalette ==
  /\ Live
  /\ Apply(resetColorPalette(This, engine),
           Call("resetColorPalette", NoData, Undefined))
  /\ repeated' = FALSE
  /\ UNCHANGED ctorColored

Render ==
  /\ Live
  /\ Apply(render(This, engine), Call("render", NoData, Undefined))
  /\ repeated' = FALSE
  /\ UNCHANGED ctorColored

Resize ==
  /\ Live
  /\ \E s \in Sizes :
       Apply(resize(This, engine, s[1], s[2]),
             Call("resize", NoData, Undefined))
  /\ repeated' = FALSE
  /\ UNCHANGED ctorColored

Next ==
  \/ Construct
  \/ SetChartProperties
  \/ ResetColorPalette
  \/ Update
  \/ UpdateHeld
  \/ Render
  \/ Resize

Spec == Init /\ [][Next]_vars

----------------------------------------------------------------------------
(* The palette synthesizer on its own *)

BuildPalette ==
  /\ \E colors \in ColorLists :
       /\ palIn' = colors
       /\ palOut' = _createPalette(colors)
  /\ UNCHANGED sessionVars

NextPalette == BuildPalette

SpecPalette == Init /\ [][NextPalette]_vars

----------------------------------------------------------------------------
(* Properties *)

UpdateFamily == {"update", "setChartProperties", "resetColorPalette"}

\* the document the session retains, as getPacket() returns it
Doc == getPacket(This).val

HasGraph == "graph" \in DOMAIN Doc.components

HasMap == "map" \in DOMAIN Doc.components

HasMaps == "maps" \in DOMAIN Doc

HasPalette == "palette" \in DOMAIN Doc

\* the last call built a document from the session's data and options
Built == lastCall.op \in {"construct", "update"} /\ ~lastCall.threw

\* C1: the retained document has exactly one of components.graph and
\* components.map, components.map exactly when the chart type is a map
\* kind, and the top-level maps key exactly when components.map is present
C1_ExactlyOneComponent ==
  Live =>
    /\ HasGraph # HasMap
    /\ HasMap = (_type \in MapTypes)
    /\ HasMaps = HasMap

C1_Witness ==
  /\ Live /\ _type \in MapTypes
  /\ lastCall.op = "update" /\ ~lastCall.threw
  /\ HasMap /\ Doc.components.map.tag = "val"

\* C2: on a map-kind session constructed with non-empty colors, after
\* resetColorPalette() the packet has no palette key, has components.map
\* populated and has no components.graph
C2_ResetDropsPalette ==
  (Live /\ ctorColored /\ _type \in MapTypes
        /\ lastCall.op = "resetColorPalette") =>
    /\ ~HasPalette
    /\ HasMap /\ Doc.components.map.tag = "val"
    /\ ~HasGraph

\* the overrides of the component the document carries
ActiveOverrides ==
  IF HasMap THEN Doc.components.map.val.overrides
  ELSE Doc.components.graph.val.overrides

\* C3: every update-family call on a live session submits exactly one
\* document to the engine, the one built from the session's data and
\* options as they stand after the call; after setChartProperties(p) the
\* active component's overrides are p
C3_EveryCallSubmitsOnce ==
  (Live /\ lastCall.op \in UpdateFamily) =>
    /\ Len(lastCall.submitted) = 1
    /\ Return(lastCall.submitted[1])
         = _createConfigString(_type, _data, Some(_options))
    /\ engine.config = Some(lastCall.submitted[1])
    /\ lastCall.op = "setChartProperties" =>
         ActiveOverrides = lastCall.options.val.properties.val

\* C4: a built document has a palette key if and only if options.colors is
\* a non-null, non-empty list
C4_PaletteIffNonEmptyColors ==
  (Live /\ Built) =>
    (HasPalette <=> (_options.colors.tag = "val" /\ _options.colors.val # <<>>))

\* C5: for a non-empty colour list C the palette's colorRanges[0].values is
\* C with the first character of every entry removed, in the same order,
\* and colorRules[0] is {min: 1, max: |C|, values: [[0,0],...,[0,|C|-1]]}
C5_PaletteShape ==
  palIn # <<>> =>
    /\ Len(palOut.colorRanges) = 1 /\ Len(palOut.colorRules) = 1
    /\ Len(palOut.colorRanges[1].values) = Len(palIn)
    /\ \A i \in 1..Len(palIn) :
         palOut.colorRanges[1].values[i] = Tail(palIn[i])
    /\ palOut.colorRules[1].min = 1
    /\ palOut.colorRules[1].max = Len(palIn)
    /\ Len(palOut.colorRules[1].values) = Len(palIn)
    /\ \A i \in 1..Len(palIn) :
         palOut.colorRules[1].values[i] = <<0, i - 1>>

C5_Witness ==
  /\ Len(palIn) >= 3
  /\ palIn[1] # palIn[2]
  /\ palOut.colorRules[1].values[3] = <<0, 2>>

\* the value a keyed row holds for a column name, undefined when it has none
Lookup(row, name) ==
  IF \E i \in 1..Len(row.items) : row.items[i][1] = name
  THEN row.items[CHOOSE i \in 1..Len(row.items) : row.items[i][1] = name][2]
  ELSE UndefinedCell

\* the row the declared columns call for
ByColumns(row, columns) ==
  IF row.isArray THEN Values(row)
  ELSE [i \in 1..Len(columns) |-> Lookup(row, columns[i].name)]

\* C6: after the constructor or update has normalized the data, every row
\* is an ordered sequence as long as columns, holding for each declared
\* column the input row's value for it (or no value), and nothing else
C6_RowsFollowColumns ==
  (Live /\ Built /\ _data.rows.tag = "val") =>
    \A r \in 1..Len(_data.rows.val) :
      /\ _data.rows.val[r].isArray
      /\ Len(_data.rows.val[r].items) = Len(_data.columns)
      /\ Values(_data.rows.val[r])
           = ByColumns(lastCall.data.rows.val[r], _data.columns)

\* C7: an update that repeats the preceding successful update, with the
\* same options and the same data, leaves the packet as that update left it
C7_RepeatedUpdateSamePacket ==
  [][repeated' => _packet' = _packet]_vars

C7_Witness ==
  /\ repeated
  /\ lastCall.data.rows.tag = "val"
  /\ lastCall.data.rows.val # <<>>
  /\ ~lastCall.data.rows.val[1].isArray
  /\ HasPalette

\* C8: update changes neither the chart type, width, height, animate nor
\* the engine handle, whatever its options argument carries, and changes
\* colors (properties) only to a non-null value the call supplies
C8_UpdateFrame ==
  [][lastCall'.op = "update" =>
       /\ _type' = _type
       /\ _options'.width = _options.width
       /\ _options'.height = _options.height
       /\ _options'.animate = _options.animate
       /\ DOMAIN _options' = DOMAIN _options
       /\ _instance' = _instance
       /\ canvas' = canvas
       /\ _options'.colors # _options.colors =>
            /\ lastCall'.options.tag = "val"
            /\ lastCall'.options.val.colors.tag = "val"
            /\ _options'.colors = lastCall'.options.val.colors
       /\ _options'.properties # _options.properties =>
            /\ lastCall'.options.tag = "val"
            /\ lastCall'.options.val.properties.tag = "val"
            /\ _options'.properties = lastCall'.options.val.properties
  ]_vars

C8_Witness ==
  /\ lastCall.op = "update" /\ ~lastCall.threw
  /\ lastCall.options.val.width = Some(640)
  /\ lastCall.options.val.colors = Undefined
  /\ _options.width = Some(500)
  /\ _options.colors = Some(<<Red, Green>>)

\* C9: in every state of a live session getPacket() is the configuration
\* string most recently handed to the engine
C9_PacketIsEngineConfig ==
  Live => getPacket(This) = engine.config

C9_Witness ==
  /\ Live /\ ~ctorColored
  /\ lastCall.op = "resize"
  /\ HasPalette
  /\ getPacket(This) = engine.config

\* C10: a failed update, setChartProperties or resetColorPalette leaves the
\* session's data, options and packet as they were and submits nothing
C10_FailedCallChangesNothing ==
  [][(lastCall'.op \in UpdateFamily /\ lastCall'.threw) =>
       /\ _data' = _data
       /\ _options' = _options
       /\ _packet' = _packet
       /\ lastCall'.submitted = <<>>
       /\ engine' = engine
  ]_vars
====
